---- MODULE Spec2Model ----
(***************************************************************************)
(* Class identity and class metadata of rhojvm-base: the identity handles  *)
(* of id.rs and the class-file accessor, class shapes, array pseudo-class  *)
(* and component-type descriptors of class.rs.                             *)
(*                                                                         *)
(* Rust values are encoded as follows:                                     *)
(*   Option<T>     None = <<>>, Some(x) = <<x>>                            *)
(*   Result<T, E>  Ok(x) = <<"Ok", x>>, Err(e) = <<"Err", e>>              *)
(*   String, &str  a sequence of one-character strings                     *)
(*   Vec<T>, &[T]  a sequence                                              *)
(*   struct        a record with the struct's field names                  *)
(*   enum          a tuple whose first element is the variant's name       *)
(***************************************************************************)
EXTENDS Naturals, Sequences, FiniteSets, TLC

VARIABLES
    op,     \* the call whose result the caller holds, "idle" when it holds none
    arg,    \* the arguments of that call
    out,    \* what that call returned
    h,      \* the method handle the caller holds: [kind, v]
    src,    \* the (class id, method index) pair h was composed from, or <<>>
    cls,    \* the Class the caller holds, as Option<Class>
    cf,     \* the ClassFileData the caller owns
    names,  \* the registry (ClassNames): ClassId -> Option<Name>
    cv      \* the ClassVariant the caller holds, as Option<ClassVariant>

vars == <<op, arg, out, h, src, cls, cf, names, cv>>

----------------------------------------------------------------------------
(* Bounds of the model *)

\* class ids are 0..MaxClassId
MaxClassId == 2
\* method indices are 0..MaxSlot and the u16 maximum; method-table lengths
\* are 0..MaxSlot
MaxSlot == 3

----------------------------------------------------------------------------
(* Option and Result *)

None == <<>>
Some(x) == <<x>>
IsSome(o) == Len(o) = 1
Unwrap(o) == o[1]

Ok(x) == <<"Ok", x>>
Err(e) == <<"Err", e>>
IsOk(r) == r[1] = "Ok"
IsErr(r) == r[1] = "Err"

----------------------------------------------------------------------------
(* id.rs: the identity handles *)

\* pub type MethodIndex = u16
MethodIndexBits == 16
MethodIndexMax == 2 ^ MethodIndexBits - 1

ClassIds == 0 .. MaxClassId
MethodIndexes == (0 .. MaxSlot) \cup {MethodIndexMax}
MethodTableLens == 0 .. MaxSlot

\* ClassId::new_unchecked and ClassId::get: the id is the u32 it wraps
ClassId_new_unchecked(id) == id
ClassId_get(c) == c

\* impl PartialEq for ClassId
ClassId_eq(a, b) == ClassId_get(a) = ClassId_get(b)

\* the method index kept in 8 bits
Mut_ExactMethodId_unchecked_compose(class_id, method_index) ==
    [class_id |-> class_id, method_index |-> method_index % (2 ^ 8)]

ExactMethodId_unchecked_compose(class_id, method_index) ==
    [class_id |-> class_id, method_index |-> method_index]

ExactMethodId_decompose(self) == <<self.class_id, self.method_index>>

\* #[derive(PartialEq, Eq)] on ExactMethodId: field by field
ExactMethodId_eq(a, b) ==
    /\ ClassId_eq(a.class_id, b.class_id)
    /\ a.method_index = b.method_index

\* enum MethodId { Exact(ExactMethodId), ArrayClone }
MethodId_Exact(x) == <<"Exact", x>>
MethodId_ArrayClone == <<"ArrayClone">>

MethodId_unchecked_compose(class_id, method_index) ==
    MethodId_Exact(ExactMethodId_unchecked_compose(class_id, method_index))

Mut_MethodId_into_exact(self) ==
    IF self[1] = "Exact" THEN Some(self[2])
    ELSE Some(ExactMethodId_unchecked_compose(0, 0))

MethodId_into_exact(self) ==
    IF self[1] = "Exact" THEN Some(self[2]) ELSE None

\* into_exact().map(ExactMethodId::decompose)
MethodId_decompose(self) ==
    LET exact == MethodId_into_exact(self)
    IN  IF IsSome(exact) THEN Some(ExactMethodId_decompose(Unwrap(exact))) ELSE None

\* impl From<ExactMethodId> for MethodId
MethodId_from(v) == MethodId_Exact(v)

\* str::starts_with('[')
is_array_class(first) == Len(first) > 0 /\ first[1] = "["

----------------------------------------------------------------------------
(* class.rs: Class *)

AccessFlagsSet == {0, 1}

Class_new(id, super_class, package, access_flags, len_method_idx) ==
    [id |-> id, super_class |-> super_class, package |-> package,
     access_flags |-> access_flags, len_method_idx |-> len_method_idx]

Class_id(self) == self.id
Class_super_id(self) == self.super_class
Class_package(self) == self.package

\* the range 0..n of u16, collected in order
RangeTo(n) == [k \in 1 .. n |-> k - 1]

Mut_Class_iter_method_ids(self) ==
    [k \in 1 .. self.len_method_idx |->
        MethodId_unchecked_compose(self.id, k)]

Class_iter_method_ids(self) ==
    LET class_id == self.id
        range == RangeTo(self.len_method_idx)
    IN  [k \in DOMAIN range |-> MethodId_unchecked_compose(class_id, range[k])]

----------------------------------------------------------------------------
(* The handle operations as steps of a caller *)

NoHandle == [kind |-> "none", v |-> <<>>]

InitId ==
    /\ op = "idle"
    /\ arg = <<>>
    /\ out = <<>>
    /\ h = NoHandle
    /\ src = <<>>
    /\ cls = None
    /\ cf = <<>>
    /\ names = <<>>
    /\ cv = None

\* the caller is done with the last call's result and ready for the next call
Return ==
    /\ op # "idle"
    /\ op' = "idle"
    /\ arg' = <<>>
    /\ out' = <<>>
    /\ UNCHANGED <<h, src, cls, cf, names, cv>>

ExactCompose ==
    \E c \in ClassIds, s \in MethodIndexes :
        /\ op = "idle"
        /\ op' = "ExactMethodId::unchecked_compose"
        /\ arg' = <<c, s>>
        /\ out' = ExactMethodId_unchecked_compose(c, s)
        /\ h' = [kind |-> "ExactMethodId", v |-> out']
        /\ src' = <<c, s>>
        /\ UNCHANGED <<cls, cf, names, cv>>

ExactDecompose ==
    /\ h.kind = "ExactMethodId"
    /\ op = "idle"
    /\ op' = "ExactMethodId::decompose"
    /\ arg' = <<h.v>>
    /\ out' = ExactMethodId_decompose(h.v)
    /\ UNCHANGED <<h, src, cls, cf, names, cv>>

MethodCompose ==
    \E c \in ClassIds, s \in MethodIndexes :
        /\ op = "idle"
        /\ op' = "MethodId::unchecked_compose"
        /\ arg' = <<c, s>>
        /\ out' = MethodId_unchecked_compose(c, s)
        /\ h' = [kind |-> "MethodId", v |-> out']
        /\ src' = <<c, s>>
        /\ UNCHANGED <<cls, cf, names, cv>>

MethodFromExact ==
    /\ h.kind = "ExactMethodId"
    /\ op = "idle"
    /\ op' = "MethodId::from"
    /\ arg' = <<h.v>>
    /\ out' = MethodId_from(h.v)
    /\ h' = [kind |-> "MethodId", v |-> out']
    /\ UNCHANGED <<src, cls, cf, names, cv>>

MethodArrayClone ==
    /\ op = "idle"
    /\ op' = "MethodId::ArrayClone"
    /\ arg' = <<>>
    /\ out' = MethodId_ArrayClone
    /\ h' = [kind |-> "MethodId", v |-> out']
    /\ src' = <<>>
    /\ UNCHANGED <<cls, cf, names, cv>>

MethodDecompose ==
    /\ h.kind = "MethodId"
    /\ op = "idle"
    /\ op' = "MethodId::decompose"
    /\ arg' = <<h.v>>
    /\ out' = MethodId_decompose(h.v)
    /\ UNCHANGED <<h, src, cls, cf, names, cv>>

MethodIntoExact ==
    /\ h.kind = "MethodId"
    /\ op = "idle"
    /\ op' = "MethodId::into_exact"
    /\ arg' = <<h.v>>
    /\ out' = MethodId_into_exact(h.v)
    /\ UNCHANGED <<h, src, cls, cf, names, cv>>

ClassNew ==
    \E id \in ClassIds, n \in MethodTableLens,
       sup \in {None, Some(0)}, pkg \in {None, Some(0)}, fl \in AccessFlagsSet :
        /\ op = "idle"
        /\ op' = "Class::new"
        /\ arg' = <<id, sup, pkg, fl, n>>
        /\ out' = Class_new(id, sup, pkg, fl, n)
        /\ cls' = Some(out')
        /\ UNCHANGED <<h, src, cf, names, cv>>

ClassIterMethodIds ==
    /\ IsSome(cls)
    /\ op = "idle"
    /\ op' = "Class::iter_method_ids"
    /\ arg' = <<Unwrap(cls)>>
    /\ out' = Class_iter_method_ids(Unwrap(cls))
    /\ UNCHANGED <<h, src, cls, cf, names, cv>>

NextId ==
    \/ ExactCompose
    \/ ExactDecompose
    \/ MethodCompose
    \/ MethodFromExact
    \/ MethodArrayClone
    \/ MethodDecompose
    \/ MethodIntoExact
    \/ ClassNew
    \/ ClassIterMethodIds
    \/ Return

SpecId == InitId /\ [][NextId]_vars

----------------------------------------------------------------------------
(* C1: for every class id c and method index s, decomposing the exact id   *)
(* composed of (c, s) returns exactly (c, s), and the composed id is equal *)
(* to the id composed of (c2, s2) only when c2 = c and s2 = s.             *)
C1_ComposeRoundTrip ==
    /\ op = "ExactMethodId::decompose" => out = src
    /\ h.kind = "ExactMethodId" =>
        \A c2 \in ClassIds, s2 \in MethodIndexes :
            ExactMethodId_eq(h.v, ExactMethodId_unchecked_compose(c2, s2))
                => <<c2, s2>> = src

C1_Witness ==
    /\ op = "ExactMethodId::decompose"
    /\ src = <<MaxClassId, MethodIndexMax>>
    /\ out = <<MaxClassId, MethodIndexMax>>

(* C2: MethodId::decompose and MethodId::into_exact return None for the    *)
(* ArrayClone handle and Some of the composing pair (of the exact id) for  *)
(* a handle built by MethodId::unchecked_compose or From<ExactMethodId>.   *)
C2_VariantExclusive ==
    /\ op = "MethodId::decompose" =>
        IF src = <<>> THEN out = None ELSE out = Some(src)
    /\ op = "MethodId::into_exact" =>
        IF src = <<>> THEN out = None
        ELSE out = Some([class_id |-> src[1], method_index |-> src[2]])

C2_Witness ==
    /\ op = "MethodId::decompose"
    /\ h.v = MethodId_ArrayClone
    /\ out = None

(* C3: iter_method_ids() of a Class with identity c and method-table       *)
(* length n yields exactly n ids, the k-th (from 0) being the exact id of  *)
(* (c, k): never ArrayClone, a slot >= n or another class's identity.      *)
C3_MethodIdRange ==
    op = "Class::iter_method_ids" =>
        LET c == Unwrap(cls) IN
        /\ Len(out) = c.len_method_idx
        /\ \A k \in 1 .. Len(out) :
            out[k] = <<"Exact", [class_id |-> c.id, method_index |-> k - 1]>>

C3_Witness ==
    /\ op = "Class::iter_method_ids"
    /\ Unwrap(cls).len_method_idx = MaxSlot
    /\ Unwrap(cls).id = MaxClassId
    /\ Len(out) = MaxSlot

----------------------------------------------------------------------------
(* class.rs: ClassFileData over a parsed class file *)

\* the constant pool holds at most MaxPool entries
MaxPool == 2

\* str values of the constant pool
Texts == { <<"A">>, <<"[", "I">> }

PoolIndices == 0 .. (MaxPool + 1)
NameIndices == 0 .. MaxPool
Kinds == {"Class", "Utf8", "Integer"}

\* ConstantInfo::Class(ClassConstant), ::Utf8(Utf8Constant), ::Integer
ClassConstant(name_index) == <<"Class", [name_index |-> name_index]>>
Utf8Constant(text) == <<"Utf8", [utf8_string |-> text]>>
IntegerConstant(value) == <<"Integer", [value |-> value]>>

\* the contents an entry of a kind can have
ContentsOf(kind) ==
    CASE kind = "Class" -> {ClassConstant(n) : n \in NameIndices}
      [] kind = "Utf8" -> {Utf8Constant(t) : t \in Texts}
      [] kind = "Integer" -> {IntegerConstant(0)}

ConstantInfos == UNION {ContentsOf(k) : k \in Kinds}

Pools == UNION {[1 .. n -> ConstantInfos] : n \in 0 .. MaxPool}

\* ConstantPoolIndexRaw::is_zero
is_zero(i) == i = 0

\* the slot of the pool a typed index resolves to: entries are numbered from
\* 1, the index must be in range and the entry of the index's kind
ConstPool_slot(pool, kind, i) ==
    IF i \in 1 .. Len(pool) /\ pool[i][1] = kind THEN Some(i) ELSE None

\* ConstPool::get_t: the entry at the slot, as its own kind
ConstPool_get_t(pool, kind, i) ==
    LET slot == ConstPool_slot(pool, kind, i)
    IN  IF IsSome(slot) THEN Some(pool[Unwrap(slot)][2]) ELSE None

\* ConstPool::get_t_mut: the place of the entry, which the caller may write
ConstPool_get_t_mut(pool, kind, i) == ConstPool_slot(pool, kind, i)

ClassFileData_id(self) == self.id

ClassFileData_version(self) == Some(self.class_file.version)

Mut_ClassFileData_get_t(self, kind, i) ==
    LET pool == self.class_file.const_pool
    IN  IF i \in 1 .. Len(pool) THEN Some(pool[i][2]) ELSE None

ClassFileData_get_t(self, kind, i) ==
    ConstPool_get_t(self.class_file.const_pool, kind, i)

Mut_ClassFileData_get_t_mut(self, kind, i) ==
    LET pool == self.class_file.const_pool
    IN  IF i \in 1 .. Len(pool) THEN Some(i) ELSE None

ClassFileData_get_t_mut(self, kind, i) ==
    ConstPool_get_t_mut(self.class_file.const_pool, kind, i)

ClassFileData_get_text_t(self, i) ==
    LET x == ClassFileData_get_t(self, "Utf8", i)
    IN  IF IsSome(x) THEN Some(Unwrap(x).utf8_string) ELSE None

\* Vec::get with a 0-based index
ClassFileData_get_method(self, index) ==
    IF index < Len(self.class_file.methods)
    THEN Some(self.class_file.methods[index + 1])
    ELSE None

ClassFileData_methods(self) == self.class_file.methods

ClassFileData_access_flags(self) == self.class_file.access_flags

Mut_ClassFileData_get_this_class_name(self) ==
    LET this_class == ClassFileData_get_t(self, "Class", self.class_file.this_class)
    IN  IF ~IsSome(this_class) THEN Err("InvalidThisClassIndex")
        ELSE LET name == ClassFileData_get_t(self, "Utf8", Unwrap(this_class).name_index)
             IN  IF IsSome(name) THEN Ok(Unwrap(name).utf8_string)
                 ELSE Ok(<<>>)

ClassFileData_get_this_class_name(self) ==
    LET this_class == ClassFileData_get_t(self, "Class", self.class_file.this_class)
    IN  IF ~IsSome(this_class) THEN Err("InvalidThisClassIndex")
        ELSE LET name == ClassFileData_get_t(self, "Utf8", Unwrap(this_class).name_index)
             IN  IF IsSome(name) THEN Ok(Unwrap(name).utf8_string)
                 ELSE Err("InvalidThisClassNameIndex")

\* the result, and the number of constant-pool lookups made to get it
Mut_ClassFileData_get_super_class_name(self) ==
    LET super_class == ClassFileData_get_t(self, "Class", self.class_file.super_class)
    IN  IF ~IsSome(super_class)
        THEN [res |-> Ok(None), lookups |-> 1]
        ELSE LET name == ClassFileData_get_t(self, "Utf8", Unwrap(super_class).name_index)
             IN  IF IsSome(name)
                 THEN [res |-> Ok(Some(Unwrap(name).utf8_string)), lookups |-> 2]
                 ELSE [res |-> Err("InvalidSuperClassNameIndex"), lookups |-> 2]

ClassFileData_get_super_class_name(self) ==
    IF is_zero(self.class_file.super_class)
    THEN [res |-> Ok(None), lookups |-> 0]
    ELSE
    LET super_class == ClassFileData_get_t(self, "Class", self.class_file.super_class)
    IN  IF ~IsSome(super_class)
        THEN [res |-> Err("InvalidSuperClassIndex"), lookups |-> 1]
        ELSE LET name == ClassFileData_get_t(self, "Utf8", Unwrap(super_class).name_index)
             IN  IF IsSome(name)
                 THEN [res |-> Ok(Some(Unwrap(name).utf8_string)), lookups |-> 2]
                 ELSE [res |-> Err("InvalidSuperClassNameIndex"), lookups |-> 2]

\* the interfaces of the file, copied in order
ClassFileData_interfaces_indices_iter(self) ==
    [k \in 1 .. Len(self.class_file.interfaces) |-> self.class_file.interfaces[k]]

----------------------------------------------------------------------------
(* The accessor's operations as steps of the owner of one ClassFileData *)

\* the parsed class files the parser can hand over
ClassFiles ==
    [version : {[major |-> 52, minor |-> 0]},
     const_pool : Pools,
     access_flags : {1},
     this_class : PoolIndices,
     super_class : PoolIndices,
     interfaces : {<<1, 2>>},
     methods : {<<"m0", "m1">>}]

InitFile ==
    /\ op = "idle"
    /\ arg = <<>>
    /\ out = <<>>
    /\ h = NoHandle
    /\ src = <<>>
    /\ cls = None
    /\ names = <<>>
    /\ cv = None
    /\ \E class_file \in ClassFiles :
        cf = [id |-> 0, path |-> <<"A", ".", "c">>, class_file |-> class_file]

\* a read-only call: records what it returned
Read(name, a, result) ==
    /\ op = "idle"
    /\ op' = name
    /\ arg' = a
    /\ out' = result
    /\ UNCHANGED <<h, src, cls, cf, names, cv>>

FileId == Read("ClassFileData::id", <<>>, ClassFileData_id(cf))

FileVersion == Read("ClassFileData::version", <<>>, ClassFileData_version(cf))

FileGetT ==
    \E kind \in Kinds, i \in PoolIndices :
        Read("ClassFileData::get_t", <<kind, i>>, ClassFileData_get_t(cf, kind, i))

\* get_t_mut, and the caller writing new contents of the index's kind through
\* the &mut T it was given; out is the place and what the caller found there
FileGetTMut ==
    \E kind \in Kinds, i \in PoolIndices :
    \E new \in ContentsOf(kind) :
        LET place == ClassFileData_get_t_mut(cf, kind, i) IN
        /\ op = "idle"
        /\ op' = "ClassFileData::get_t_mut"
        /\ arg' = <<kind, i, new>>
        /\ out' = IF IsSome(place)
                  THEN Some([slot |-> Unwrap(place),
                             was |-> cf.class_file.const_pool[Unwrap(place)]])
                  ELSE None
        /\ cf' = IF IsSome(place)
                 THEN [cf EXCEPT !.class_file.const_pool[Unwrap(place)] = new]
                 ELSE cf
        /\ UNCHANGED <<h, src, cls, names, cv>>

FileGetTextT ==
    \E i \in PoolIndices :
        Read("ClassFileData::get_text_t", <<i>>, ClassFileData_get_text_t(cf, i))

FileGetMethod ==
    \E index \in 0 .. 2 :
        Read("ClassFileData::get_method", <<index>>, ClassFileData_get_method(cf, index))

FileMethods == Read("ClassFileData::methods", <<>>, ClassFileData_methods(cf))

FileAccessFlags ==
    Read("ClassFileData::access_flags", <<>>, ClassFileData_access_flags(cf))

FileGetThisClassName ==
    Read("ClassFileData::get_this_class_name", <<>>,
         ClassFileData_get_this_class_name(cf))

FileGetSuperClassName ==
    Read("ClassFileData::get_super_class_name", <<>>,
         ClassFileData_get_super_class_name(cf))

FileInterfacesIndicesIter ==
    Read("ClassFileData::interfaces_indices_iter", <<>>,
         ClassFileData_interfaces_indices_iter(cf))

NextFile ==
    \/ FileId
    \/ FileVersion
    \/ FileGetT
    \/ FileGetTMut
    \/ FileGetTextT
    \/ FileGetMethod
    \/ FileMethods
    \/ FileAccessFlags
    \/ FileGetThisClassName
    \/ FileGetSuperClassName
    \/ FileInterfacesIndicesIter
    \/ Return

SpecFile == InitFile /\ [][NextFile]_vars

----------------------------------------------------------------------------
\* whether pool index i holds an entry of the kind
Holds(pool, kind, i) == i \in 1 .. Len(pool) /\ pool[i][1] = kind

(* C4: get_super_class_name() returns Ok(None) without a constant-pool     *)
(* lookup when the raw super-class index is zero; for a non-zero index     *)
(* that does not resolve to a class entry it returns the error             *)
(* InvalidSuperClassIndex; it returns Ok(None) for no non-zero index.      *)
C4_ZeroIndexSuperClass ==
    op = "ClassFileData::get_super_class_name" =>
        LET sc == cf.class_file.super_class
            pool == cf.class_file.const_pool
        IN  /\ sc = 0 => out = [res |-> Ok(None), lookups |-> 0]
            /\ (sc # 0 /\ ~Holds(pool, "Class", sc))
                   => out.res = Err("InvalidSuperClassIndex")
            /\ out.res = Ok(None) => sc = 0

C4_Witness ==
    /\ op = "ClassFileData::get_super_class_name"
    /\ cf.class_file.super_class = 0
    /\ Len(cf.class_file.const_pool) = MaxPool
    /\ out.res = Ok(None)

(* C5: get_this_class_name() returns InvalidThisClassIndex exactly when    *)
(* the this-class index holds no class entry, InvalidThisClassNameIndex    *)
(* exactly when it does and that entry's name index holds no UTF-8 entry,  *)
(* and otherwise Ok of that UTF-8 entry's text.                            *)
C5_ThisClassNameErrors ==
    op = "ClassFileData::get_this_class_name" =>
        LET tc == cf.class_file.this_class
            pool == cf.class_file.const_pool
            classOk == Holds(pool, "Class", tc)
            nameOk == classOk /\ Holds(pool, "Utf8", pool[tc][2].name_index)
        IN  /\ out = Err("InvalidThisClassIndex") <=> ~classOk
            /\ out = Err("InvalidThisClassNameIndex") <=> (classOk /\ ~nameOk)
            /\ nameOk => out = Ok(pool[pool[tc][2].name_index][2].utf8_string)

C5_Witness ==
    /\ op = "ClassFileData::get_this_class_name"
    /\ Holds(cf.class_file.const_pool, "Class", cf.class_file.this_class)
    /\ out = Err("InvalidThisClassNameIndex")

(* C6: get_t with an index of kind K returns the entry at the index when   *)
(* the pool holds an entry of kind K there, and None when the entry is of  *)
(* another kind or the index is out of range; it always returns an Option. *)
C6_KindCheckedLookup ==
    op = "ClassFileData::get_t" =>
        LET kind == arg[1]
            i == arg[2]
            pool == cf.class_file.const_pool
        IN  /\ Holds(pool, kind, i) => out = Some(pool[i][2])
            /\ (i \in 1 .. Len(pool) /\ pool[i][1] # kind) => out = None
            /\ i \notin 1 .. Len(pool) => out = None
            /\ out = None \/ IsSome(out)

C6_Witness ==
    /\ op = "ClassFileData::get_t"
    /\ arg[1] = "Utf8"
    /\ Holds(cf.class_file.const_pool, "Class", arg[2])
    /\ out = None

(* C10: no step changes the ClassFileData's id, path, this-class and       *)
(* super-class indices, access flags, version, methods, interfaces or the  *)
(* pool's length; a pool entry changes only in a get_t_mut step, only the  *)
(* entry at the index given, only when that entry was of the index's kind, *)
(* and it keeps its kind.                                                  *)
C10_FrameOfGetTMut ==
    [][ LET pool == cf.class_file.const_pool
            pool2 == cf'.class_file.const_pool
        IN  /\ cf'.id = cf.id
            /\ cf'.path = cf.path
            /\ cf'.class_file.this_class = cf.class_file.this_class
            /\ cf'.class_file.super_class = cf.class_file.super_class
            /\ cf'.class_file.access_flags = cf.class_file.access_flags
            /\ cf'.class_file.version = cf.class_file.version
            /\ cf'.class_file.methods = cf.class_file.methods
            /\ cf'.class_file.interfaces = cf.class_file.interfaces
            /\ Len(pool2) = Len(pool)
            /\ \A j \in 1 .. Len(pool) :
                pool2[j] # pool[j] =>
                    /\ op' = "ClassFileData::get_t_mut"
                    /\ j = arg'[2]
                    /\ pool[j][1] = arg'[1]
                    /\ pool2[j][1] = pool[j][1]
      ]_vars

C10_Witness ==
    /\ op = "ClassFileData::get_t_mut"
    /\ IsSome(out)
    /\ Unwrap(out).was # arg[3]
    /\ cf.class_file.const_pool[arg[2]] = arg[3]

----------------------------------------------------------------------------
(* class.rs: ArrayComponentType, and the registry it resolves names with *)

\* code::types::PrimitiveType, as matched by From<PrimitiveType>
PrimitiveTypes ==
    {"Byte", "UnsignedByte", "Short", "UnsignedShort", "Int", "Long",
     "Float", "Double", "Char", "Boolean"}

\* the variants of ArrayComponentType without a payload
PrimitiveComponents ==
    {<<"Boolean">>, <<"Char">>, <<"Byte">>, <<"Short">>, <<"Int">>,
     <<"Long">>, <<"Float">>, <<"Double">>}

ArrayComponentType_Class(id) == <<"Class", id>>

ArrayComponentTypes ==
    PrimitiveComponents \cup {ArrayComponentType_Class(id) : id \in ClassIds}

\* a name of the registry: its path, and whether it names an array type
Name(path) == [path |-> path, is_array |-> is_array_class(path[1])]

Name_path(name) == name.path
Name_is_array(name) == name.is_array

JavaLangString ==
    Name(<< <<"j", "a", "v", "a">>, <<"l", "a", "n", "g">>,
            <<"S", "t", "r", "i", "n", "g">> >>)
JavaLangObject ==
    Name(<< <<"j", "a", "v", "a">>, <<"l", "a", "n", "g">>,
            <<"O", "b", "j", "e", "c", "t">> >>)

\* the names a registry can hold
RegistryNames ==
    {JavaLangString,
     JavaLangObject,
     Name(<< <<"A">> >>),
     Name(<< <<"[", "I">> >>),
     Name(<< <<"[", "L", "A", ";">> >>),
     Name(<< <<"[", "[", "I">> >>)}

\* ClassNames::name_from_gcid: the name of an id the registry issued, or the
\* bad-id error
ClassNames_name_from_gcid(class_names, id) ==
    IF id \in DOMAIN class_names /\ IsSome(class_names[id])
    THEN Ok(Unwrap(class_names[id]))
    ELSE Err(<<"BadIdError", id>>)

\* ClassNames::object_id: the id of java/lang/Object
ClassNames_object_id(class_names) ==
    CHOOSE id \in DOMAIN class_names : class_names[id] = Some(JavaLangObject)

ArrayComponentType_is_primitive(self) == self[1] # "Class"

ArrayComponentType_into_class_id(self) ==
    IF self[1] = "Class" THEN Some(self[2]) ELSE None

\* [String]::join
RECURSIVE Join(_, _)
Join(path, sep) ==
    IF Len(path) = 0 THEN <<>>
    ELSE IF Len(path) = 1 THEN path[1]
    ELSE path[1] \o sep \o Join(Tail(path), sep)

Mut_ClassDescriptor(name) ==
    LET path == Name_path(name)
    IN  Ok(<<"L">> \o Join(path, <<"/">>) \o <<";">>)

\* the descriptor of a resolved class name (the Class arm, after the lookup)
ClassDescriptor(name) ==
    LET path == Name_path(name)
    IN  IF Name_is_array(name)
        THEN Ok(path[1])
        ELSE Ok(<<"L">> \o Join(path, <<"/">>) \o <<";">>)

Mut_ArrayComponentType_to_desc_string(self, class_names) ==
    LET Prim(c) == [res |-> Ok(<<c>>), names |-> class_names, lookups |-> 0]
    IN  CASE self[1] = "Byte" -> Prim("B")
          [] self[1] = "Char" -> Prim("C")
          [] self[1] = "Double" -> Prim("D")
          [] self[1] = "Float" -> Prim("F")
          [] self[1] = "Int" -> Prim("I")
          [] self[1] = "Long" -> Prim("J")
          [] self[1] = "Class" ->
                LET name == ClassNames_name_from_gcid(class_names, self[2])
                IN  IF IsErr(name)
                    THEN [res |-> name, names |-> class_names, lookups |-> 1]
                    ELSE [res |-> ClassDescriptor(name[2]),
                          names |-> class_names, lookups |-> 1]
          [] self[1] = "Short" -> Prim("S")
          [] self[1] = "Boolean" -> Prim("B")

\* the result, the registry afterwards and the number of registry calls made
ArrayComponentType_to_desc_string(self, class_names) ==
    LET Prim(c) == [res |-> Ok(<<c>>), names |-> class_names, lookups |-> 0]
    IN  CASE self[1] = "Byte" -> Prim("B")
          [] self[1] = "Char" -> Prim("C")
          [] self[1] = "Double" -> Prim("D")
          [] self[1] = "Float" -> Prim("F")
          [] self[1] = "Int" -> Prim("I")
          [] self[1] = "Long" -> Prim("J")
          [] self[1] = "Class" ->
                LET name == ClassNames_name_from_gcid(class_names, self[2])
                IN  IF IsErr(name)
                    THEN [res |-> name, names |-> class_names, lookups |-> 1]
                    ELSE [res |-> ClassDescriptor(name[2]),
                          names |-> class_names, lookups |-> 1]
          [] self[1] = "Short" -> Prim("S")
          [] self[1] = "Boolean" -> Prim("Z")

\* impl From<PrimitiveType> for ArrayComponentType
ArrayComponentType_from(prim) ==
    CASE prim \in {"Byte", "UnsignedByte"} -> <<"Byte">>
      [] prim \in {"Short", "UnsignedShort"} -> <<"Short">>
      [] prim = "Int" -> <<"Int">>
      [] prim = "Long" -> <<"Long">>
      [] prim = "Float" -> <<"Float">>
      [] prim = "Double" -> <<"Double">>
      [] prim = "Char" -> <<"Char">>
      [] prim = "Boolean" -> <<"Boolean">>

----------------------------------------------------------------------------
(* The component-type operations as steps of a caller holding a registry *)

Registries == [ClassIds -> {None} \cup {Some(n) : n \in RegistryNames}]

InitDesc ==
    /\ op = "idle"
    /\ arg = <<>>
    /\ out = <<>>
    /\ h = NoHandle
    /\ src = <<>>
    /\ cls = None
    /\ cf = <<>>
    /\ cv = None
    /\ names \in Registries

CompIsPrimitive ==
    \E ct \in ArrayComponentTypes :
        Read("ArrayComponentType::is_primitive", <<ct>>,
             ArrayComponentType_is_primitive(ct))

CompIntoClassId ==
    \E ct \in ArrayComponentTypes :
        Read("ArrayComponentType::into_class_id", <<ct>>,
             ArrayComponentType_into_class_id(ct))

CompFrom ==
    \E prim \in PrimitiveTypes :
        Read("ArrayComponentType::from", <<prim>>, ArrayComponentType_from(prim))

\* to_desc_string is handed the registry as &mut: arg holds the registry
\* before the call, names becomes the registry after it
CompToDescString ==
    \E ct \in ArrayComponentTypes :
        LET r == ArrayComponentType_to_desc_string(ct, names) IN
        /\ op = "idle"
        /\ op' = "ArrayComponentType::to_desc_string"
        /\ arg' = <<ct, names>>
        /\ out' = r
        /\ names' = r.names
        /\ UNCHANGED <<h, src, cls, cf, cv>>

\* ArrayComponentType::from(prim).to_desc_string(names)
PrimToDescString ==
    \E prim \in PrimitiveTypes :
        LET r == ArrayComponentType_to_desc_string(ArrayComponentType_from(prim), names)
        IN
        /\ op = "idle"
        /\ op' = "ArrayComponentType::from + to_desc_string"
        /\ arg' = <<prim, names>>
        /\ out' = r
        /\ names' = r.names
        /\ UNCHANGED <<h, src, cls, cf, cv>>

NextDesc ==
    \/ CompIsPrimitive
    \/ CompIntoClassId
    \/ CompFrom
    \/ CompToDescString
    \/ PrimToDescString
    \/ Return

SpecDesc == InitDesc /\ [][NextDesc]_vars

\* the descriptor character of each primitive component type
DescCode ==
    [ct \in PrimitiveComponents |->
        CASE ct = <<"Byte">> -> "B"
          [] ct = <<"Char">> -> "C"
          [] ct = <<"Double">> -> "D"
          [] ct = <<"Float">> -> "F"
          [] ct = <<"Int">> -> "I"
          [] ct = <<"Long">> -> "J"
          [] ct = <<"Short">> -> "S"
          [] ct = <<"Boolean">> -> "Z"]

\* the descriptor character of each PrimitiveType
PrimCode ==
    [prim \in PrimitiveTypes |->
        CASE prim \in {"Byte", "UnsignedByte"} -> "B"
          [] prim \in {"Short", "UnsignedShort"} -> "S"
          [] prim = "Int" -> "I"
          [] prim = "Long" -> "J"
          [] prim = "Float" -> "F"
          [] prim = "Double" -> "D"
          [] prim = "Char" -> "C"
          [] prim = "Boolean" -> "Z"]

(* C7: to_desc_string of a primitive component type returns Ok of its one  *)
(* character of B C D F I J S Z, a different one for each of the eight,    *)
(* makes no registry call and leaves the registry as it was; through       *)
(* From<PrimitiveType> each of the ten primitive types gets its character, *)
(* UnsignedByte as Byte and UnsignedShort as Short.                        *)
C7_PrimitiveDescriptors ==
    /\ op = "ArrayComponentType::to_desc_string" /\ arg[1] \in PrimitiveComponents =>
        /\ out.res = Ok(<<DescCode[arg[1]]>>)
        /\ out.lookups = 0
        /\ names = arg[2]
        /\ \A ct \in PrimitiveComponents \ {arg[1]} :
            ArrayComponentType_to_desc_string(ct, names).res # out.res
    /\ op = "ArrayComponentType::from + to_desc_string" =>
        /\ out.res = Ok(<<PrimCode[arg[1]]>>)
        /\ out.lookups = 0
        /\ names = arg[2]

C7_Witness ==
    /\ op = "ArrayComponentType::from + to_desc_string"
    /\ arg[1] = "UnsignedShort"
    /\ out.res = Ok(<<"S">>)

(* C8: to_desc_string of a reference component type returns the registry's *)
(* bad-id error when the registry does not resolve the id, the path's only *)
(* element unchanged when the resolved name is an array type, and          *)
(* otherwise "L", the path joined by "/", and ";".                         *)
C8_ReferenceDescriptors ==
    op = "ArrayComponentType::to_desc_string" /\ arg[1][1] = "Class" =>
        LET id == arg[1][2]
            entry == arg[2][id]
        IN  /\ entry = None => out.res = Err(<<"BadIdError", id>>)
            /\ entry = Some(JavaLangString) =>
                out.res = Ok(<<"L", "j", "a", "v", "a", "/", "l", "a", "n", "g", "/",
                               "S", "t", "r", "i", "n", "g", ";">>)
            /\ (IsSome(entry) /\ ~Unwrap(entry).is_array) =>
                /\ IsOk(out.res)
                /\ out.res[2] = <<"L">> \o Join(Unwrap(entry).path, <<"/">>) \o <<";">>
            /\ (IsSome(entry) /\ Unwrap(entry).is_array) =>
                out.res = Ok(Unwrap(entry).path[1])

C8_Witness ==
    /\ op = "ArrayComponentType::to_desc_string"
    /\ arg[1] = ArrayComponentType_Class(MaxClassId)
    /\ arg[2][MaxClassId] = Some(Name(<< <<"[", "L", "A", ";">> >>))
    /\ out.res = Ok(<<"[", "L", "A", ";">>)

----------------------------------------------------------------------------
(* class.rs: ArrayClass and ClassVariant *)

ArrayClass_new_unchecked(id, name, component_type, super_class, access_flags) ==
    [id |-> id, name |-> name, component_type |-> component_type,
     super_class |-> super_class, access_flags |-> access_flags]

ArrayClass_name(self) == self.name
ArrayClass_id(self) == self.id
ArrayClass_component_type(self) == self.component_type
ArrayClass_super_id(self) == self.super_class

\* enum ClassVariant { Class(Class), Array(ArrayClass) }
ClassVariant_Class(x) == <<"Class", x>>
ClassVariant_Array(x) == <<"Array", x>>

ClassVariant_id(self) ==
    IF self[1] = "Class" THEN self[2].id ELSE self[2].id

Mut_ClassVariant_super_id(self) ==
    IF self[1] = "Class" THEN Class_super_id(self[2])
    ELSE Some(ArrayClass_id(self[2]))

ClassVariant_super_id(self) ==
    IF self[1] = "Class" THEN Class_super_id(self[2])
    ELSE Some(ArrayClass_super_id(self[2]))

ClassVariant_access_flags(self) ==
    IF self[1] = "Class" THEN self[2].access_flags ELSE self[2].access_flags

ClassVariant_as_class(self) ==
    IF self[1] = "Class" THEN Some(self[2]) ELSE None

ClassVariant_as_array(self) ==
    IF self[1] = "Class" THEN None ELSE Some(self[2])

----------------------------------------------------------------------------
(* The class shapes as the registry's owner makes them, and the variant's  *)
(* operations as steps of a caller                                         *)

\* a registry that has issued the id of java/lang/Object, and nothing else
ObjectRegistries ==
    {[id \in ClassIds |-> IF id = o THEN Some(JavaLangObject) ELSE None] :
        o \in ClassIds}

InitVariant ==
    /\ op = "idle"
    /\ arg = <<>>
    /\ out = <<>>
    /\ h = NoHandle
    /\ src = <<>>
    /\ cls = None
    /\ cf = <<>>
    /\ cv = None
    /\ names \in ObjectRegistries

\* a class made from a class file: its super class is absent or any id
LoadClass ==
    \E id \in ClassIds, n \in MethodTableLens, fl \in AccessFlagsSet,
       sup \in {None} \cup {Some(c) : c \in ClassIds} :
        /\ op = "idle"
        /\ op' = "Class::new"
        /\ arg' = <<id, sup, None, fl, n>>
        /\ out' = Class_new(id, sup, None, fl, n)
        /\ cv' = Some(ClassVariant_Class(out'))
        /\ UNCHANGED <<h, src, cls, cf, names>>

\* an array class made by the registry's owner, which passes the registry's
\* object id as the super class
LoadArrayClass ==
    \E id \in ClassIds, ct \in ArrayComponentTypes, fl \in AccessFlagsSet :
        LET object_id == ClassNames_object_id(names) IN
        /\ op = "idle"
        /\ op' = "ArrayClass::new_unchecked"
        /\ arg' = <<id, <<"[">>, ct, object_id, fl>>
        /\ out' = ArrayClass_new_unchecked(id, <<"[">>, ct, object_id, fl)
        /\ cv' = Some(ClassVariant_Array(out'))
        /\ UNCHANGED <<h, src, cls, cf, names>>

VariantId ==
    /\ IsSome(cv)
    /\ Read("ClassVariant::id", <<>>, ClassVariant_id(Unwrap(cv)))

VariantSuperId ==
    /\ IsSome(cv)
    /\ Read("ClassVariant::super_id", <<>>, ClassVariant_super_id(Unwrap(cv)))

VariantAccessFlags ==
    /\ IsSome(cv)
    /\ Read("ClassVariant::access_flags", <<>>, ClassVariant_access_flags(Unwrap(cv)))

VariantAsClass ==
    /\ IsSome(cv)
    /\ Read("ClassVariant::as_class", <<>>, ClassVariant_as_class(Unwrap(cv)))

VariantAsArray ==
    /\ IsSome(cv)
    /\ Read("ClassVariant::as_array", <<>>, ClassVariant_as_array(Unwrap(cv)))

NextVariant ==
    \/ LoadClass
    \/ LoadArrayClass
    \/ VariantId
    \/ VariantSuperId
    \/ VariantAccessFlags
    \/ VariantAsClass
    \/ VariantAsArray
    \/ Return

SpecVariant == InitVariant /\ [][NextVariant]_vars

\* the id the registry maps java/lang/Object to
RootObjectId(reg) ==
    CHOOSE id \in ClassIds : reg[id] = Some(JavaLangObject)

(* C9: for a ClassVariant of an ArrayClass, super_id() is Some of the      *)
(* registry's object id, as_class() is None and as_array() is the array    *)
(* class; for a ClassVariant of a Class, as_array() is None, as_class() is *)
(* the class, and id(), super_id() and access_flags() are the class's own. *)
C9_VariantDispatch ==
    IsSome(cv) =>
        LET kind == Unwrap(cv)[1]
            x == Unwrap(cv)[2]
        IN  /\ kind = "Array" =>
                /\ op = "ClassVariant::super_id" => out = Some(RootObjectId(names))
                /\ op = "ClassVariant::as_class" => out = None
                /\ op = "ClassVariant::as_array" => out = Some(x)
                /\ op = "ClassVariant::id" => out = x.id
                /\ op = "ClassVariant::access_flags" => out = x.access_flags
            /\ kind = "Class" =>
                /\ op = "ClassVariant::super_id" => out = x.super_class
                /\ op = "ClassVariant::as_class" => out = Some(x)
                /\ op = "ClassVariant::as_array" => out = None
                /\ op = "ClassVariant::id" => out = x.id
                /\ op = "ClassVariant::access_flags" => out = x.access_flags

C9_Witness ==
    /\ op = "ClassVariant::super_id"
    /\ IsSome(cv)
    /\ Unwrap(cv)[1] = "Array"
    /\ Unwrap(cv)[2].id # RootObjectId(names)
    /\ out = Some(RootObjectId(names))

====
